---- MODULE Spec2Model ----
(***************************************************************************)
(* A model of src/utils/android.rs: the Android manifest accessors and the *)
(* merge of proguard UUIDs into a Java properties file.                    *)
(*                                                                         *)
(* Text (file contents, keys, values, attribute values) is a sequence of   *)
(* one-character strings, so that formatting and parsing are computed and  *)
(* not assumed to be inverse to each other.                                *)
(***************************************************************************)
EXTENDS Integers, Sequences, FiniteSets, TLC

\* ------------------------------------------------------------------ bounds

\* Number of ancestor directories of the properties path below an existing root.
Depth == 2
\* Longest identifier list handed to the merge.
MaxUuids == 2
\* Most lines of a properties file that exists before the first merge.
MaxLines == 2
\* Longest package text drawn from the package alphabet.
MaxPkgLen == 2
\* Calls of AndroidManifest::from_path in one run.
MaxLoads == 2

\* ------------------------------------------------------------------ text

NL == "\n"
CR == "\r"
TAB == "\t"
FF == "\f"
BS == "\\"
SP == " "

Whitespace == {SP, TAB, CR, NL, FF}

RECURSIVE Concat(_)
\* The concatenation of a sequence of texts (by halves, to keep the
\* evaluation shallow).
Concat(ss) ==
    IF ss = <<>> THEN <<>>
    ELSE IF Len(ss) = 1 THEN ss[1]
    ELSE LET h == Len(ss) \div 2
         IN  Concat(SubSeq(ss, 1, h)) \o Concat(SubSeq(ss, h + 1, Len(ss)))

\* The k-th smallest element of a set of numbers.
Nth(S, k) == CHOOSE x \in S : Cardinality({y \in S : y < x}) = k - 1

\* The key owned by the merge, "io.sentry.ProguardUuids".
ProguardKey ==
    <<"i","o",".","s","e","n","t","r","y",".",
      "P","r","o","g","u","a","r","d","U","u","i","d","s">>

\* ------------------------------------------------------------------ Uuid

HexDigits == <<"0","1","2","3","4","5","6","7","8","9","a","b","c","d","e","f">>

\* A Uuid is 16 bytes; the lists are drawn from two distinct ones.
MkUuid(seed) == [i \in 1..16 |-> (seed * 89 + i * 37) % 256]

UuidPool == {MkUuid(1), MkUuid(2)}

ByteHex(b) == <<HexDigits[(b \div 16) + 1], HexDigits[(b % 16) + 1]>>

RECURSIVE HexFrom(_, _)
\* Uuid's Display: lower-case hex, hyphens after bytes 4, 6, 8 and 10.
HexFrom(u, i) ==
    IF i > Len(u) THEN <<>>
    ELSE ByteHex(u[i]) \o (IF i \in {4, 6, 8, 10} THEN <<"-">> ELSE <<>>)
         \o HexFrom(u, i + 1)

UuidToString(u) == HexFrom(u, 1)

RECURSIVE JoinFrom(_, _, _)
JoinFrom(strs, sep, i) ==
    IF i > Len(strs) THEN <<>>
    ELSE (IF i = 1 THEN <<>> ELSE sep) \o strs[i] \o JoinFrom(strs, sep, i + 1)

\* itertools' join: the elements separated by sep, "" for no element.
Join(strs, sep) == JoinFrom(strs, sep, 1)

\* uuids.iter().map(|x| x.to_string()).join("|")
JoinedUuids(uuids) == Join([i \in 1..Len(uuids) |-> UuidToString(uuids[i])], <<"|">>)

\* ------------------------------------------------------------------ java_properties

EmptyMap == [k \in {} |-> <<>>]

\* PropertiesWriter::write_escaped, one character.
EscapeChar(c) ==
    CASE c = BS  -> <<BS, BS>>
      [] c = SP  -> <<BS, SP>>
      [] c = TAB -> <<BS, "t">>
      [] c = CR  -> <<BS, "r">>
      [] c = NL  -> <<BS, "n">>
      [] c = FF  -> <<BS, "f">>
      [] c = ":" -> <<BS, ":">>
      [] c = "=" -> <<BS, "=">>
      [] c = "!" -> <<BS, "!">>
      [] c = "#" -> <<BS, "#">>
      [] OTHER   -> <<c>>

\* PropertiesWriter::write_escaped on a key or a value.
Escape(s) == Concat([i \in 1..Len(s) |-> EscapeChar(s[i])])

\* PropertiesWriter::write(key, value): the four writes it issues, in order
\* (escaped key, the separator "=", escaped value, the line ending).
EntryChunks(k, v) == <<Escape(k), <<"=">>, Escape(v), <<NL>>>>

\* NaturalLines: the text cut at "\n", "\r" or "\r\n"; what follows the last
\* line ending is a line when it is not empty.
NaturalLines(s) ==
    LET n      == Len(s)
        ends   == {i \in 1..n : s[i] = NL \/ (s[i] = CR /\ ~(i < n /\ s[i + 1] = NL))}
        cnt    == Cardinality(ends)
        from(k) == IF k = 1 THEN 1 ELSE Nth(ends, k - 1) + 1
        upto(k) == LET e == Nth(ends, k)
                   IN  IF s[e] = NL /\ e > 1 /\ s[e - 1] = CR THEN e - 2 ELSE e - 1
        body   == [k \in 1..cnt |-> SubSeq(s, from(k), upto(k))]
        last   == from(cnt + 1)
    IN  IF last > n THEN body ELSE Append(body, SubSeq(s, last, n))

RECURSIVE TrimStart(_)
TrimStart(s) ==
    IF s # <<>> /\ Head(s) \in Whitespace THEN TrimStart(Tail(s)) ELSE s

RECURSIVE EndingBackslashes(_)
EndingBackslashes(s) ==
    IF s # <<>> /\ s[Len(s)] = BS
    THEN 1 + EndingBackslashes(SubSeq(s, 1, Len(s) - 1))
    ELSE 0

IsCommentLine(s) == LET t == TrimStart(s) IN t # <<>> /\ Head(t) \in {"#", "!"}

\* LogicalLines: a natural line that ends in an odd number of backslashes is
\* joined (without that backslash) to the next one, whose leading whitespace
\* is dropped; a comment line that starts a logical line is never joined.
LogicalLines(lines) ==
    LET RECURSIVE go(_, _, _, _)
        go(i, buf, first, acc) ==
            IF i > Len(lines) THEN (IF first THEN acc ELSE Append(acc, buf))
            ELSE LET line == lines[i]
                     b    == buf \o (IF first THEN line ELSE TrimStart(line))
                 IN  IF first /\ IsCommentLine(line)
                     THEN go(i + 1, <<>>, TRUE, Append(acc, b))
                     ELSE IF EndingBackslashes(line) % 2 = 1
                     THEN go(i + 1, SubSeq(b, 1, Len(b) - 1), FALSE, acc)
                     ELSE go(i + 1, <<>>, TRUE, Append(acc, b))
    IN  go(1, <<>>, TRUE, <<>>)

\* The end of the key that starts at position i of s: the first position at
\* or after i that holds an unescaped ":", "=" or whitespace (Len(s)+1 if none).
RECURSIVE KeyEnd(_, _)
KeyEnd(s, i) ==
    IF i > Len(s) THEN i
    ELSE IF s[i] = BS THEN (IF i + 1 > Len(s) THEN i + 1 ELSE KeyEnd(s, i + 2))
    ELSE IF s[i] \in Whitespace \cup {":", "="} THEN i
    ELSE KeyEnd(s, i + 1)

\* parse_line (LINE_RE): [kind |-> "blank" | "comment"] or
\* [kind |-> "pair", key |-> raw key, value |-> raw value].
ParseLine(line) ==
    LET t == TrimStart(line)
    IN  IF t = <<>> THEN [kind |-> "blank"]
        ELSE IF Head(t) \in {"#", "!"} THEN [kind |-> "comment"]
        ELSE LET e    == KeyEnd(t, 1)
                 rest == TrimStart(SubSeq(t, e, Len(t)))
                 val  == IF rest # <<>> /\ Head(rest) \in {":", "="}
                         THEN TrimStart(Tail(rest))
                         ELSE rest
             IN  [kind |-> "pair", key |-> SubSeq(t, 1, e - 1), value |-> val]

HexValue(c) ==
    CASE c \in {"0"} -> 0 [] c = "1" -> 1 [] c = "2" -> 2 [] c = "3" -> 3
      [] c = "4" -> 4 [] c = "5" -> 5 [] c = "6" -> 6 [] c = "7" -> 7
      [] c = "8" -> 8 [] c = "9" -> 9
      [] c \in {"a", "A"} -> 10 [] c \in {"b", "B"} -> 11
      [] c \in {"c", "C"} -> 12 [] c \in {"d", "D"} -> 13
      [] c \in {"e", "E"} -> 14 [] c \in {"f", "F"} -> 15
      [] OTHER -> -1

\* The character of a code point; "?" stands for every code point the
\* model's texts do not use.
CharOfCode(n) ==
    CASE n = 9 -> TAB [] n = 10 -> NL [] n = 12 -> FF [] n = 13 -> CR
      [] n = 32 -> SP [] n = 33 -> "!" [] n = 35 -> "#" [] n = 45 -> "-"
      [] n = 46 -> "." [] n = 58 -> ":" [] n = 61 -> "=" [] n = 92 -> BS
      [] n = 97 -> "a" [] n = 98 -> "b" [] n = 99 -> "c" [] n = 100 -> "d"
      [] n = 101 -> "e" [] n = 124 -> "|"
      [] OTHER -> "?"

\* unescape: [ok |-> TRUE, str |-> text] or [ok |-> FALSE] on a malformed
\* \uxxxx escape.  A backslash starts an escape when an even number of
\* backslashes stands right before it; the character after it is consumed.
Unescape(s) ==
    LET n == Len(s)
        run(i)    == (i - 1) - (IF \E j \in 1..(i - 1) : s[j] # BS
                                THEN CHOOSE j \in 1..(i - 1) :
                                        /\ s[j] # BS
                                        /\ \A l \in (j + 1)..(i - 1) : s[l] = BS
                                ELSE 0)
        starts    == {i \in 1..n : s[i] = BS /\ run(i) % 2 = 0}
        unicode   == {i \in starts : i < n /\ s[i + 1] = "u"}
        bad       == {i \in unicode :
                         i + 5 > n \/ \E j \in (i + 2)..(i + 5) : HexValue(s[j]) < 0}
        eaten     == {i + 1 : i \in starts}
                     \cup UNION {(i + 2)..(i + 5) : i \in unicode}
        decoded(i) ==
            IF i + 1 > n THEN <<>>
            ELSE LET c == s[i + 1]
                 IN  CASE c = "t" -> <<TAB>>
                       [] c = "n" -> <<NL>>
                       [] c = "f" -> <<FF>>
                       [] c = "r" -> <<CR>>
                       [] c = "u" -> <<CharOfCode(HexValue(s[i + 2]) * 4096
                                                  + HexValue(s[i + 3]) * 256
                                                  + HexValue(s[i + 4]) * 16
                                                  + HexValue(s[i + 5]))>>
                       [] OTHER -> <<c>>
    IN  IF bad # {} THEN [ok |-> FALSE, str |-> <<>>]
        ELSE [ok |-> TRUE,
              str |-> Concat([i \in 1..n |-> IF i \in starts THEN decoded(i)
                                             ELSE IF i \in eaten THEN <<>>
                                             ELSE <<s[i]>>])]

\* java_properties::read on the bytes of a file: [ok |-> TRUE, map |-> m], a
\* later line overriding an earlier one with the same key, or [ok |-> FALSE]
\* when a line does not parse.
PropsRead(data) ==
    LET lines == LogicalLines(NaturalLines(data))
        RECURSIVE go(_, _)
        go(i, m) ==
            IF i > Len(lines) THEN [ok |-> TRUE, map |-> m]
            ELSE LET pl == ParseLine(lines[i])
                 IN  IF pl.kind # "pair" THEN go(i + 1, m)
                     ELSE LET k == Unescape(pl.key)
                              v == Unescape(pl.value)
                          IN  IF ~k.ok \/ ~v.ok
                              THEN [ok |-> FALSE, map |-> EmptyMap]
                              ELSE go(i + 1, (k.str :> v.str) @@ m)
    IN  go(1, EmptyMap)

\* ------------------------------------------------------------------ XML (elementtree)

\* line 19
ANDROID_NS == "http://schemas.android.com/apk/res/android"

TOOLS_NS == "http://schemas.android.com/tools"

\* A manifest file is the root element's start tag as its tokens, in file
\* order: namespace declarations [kind |-> "xmlns", prefix, uri] and
\* attributes [kind |-> "attr", prefix, local, text], text being the raw
\* text between the quotes; closed says whether the rest of the document,
\* up to the root's end tag, is there and well formed.
Xmlns(prefix, uri) ==
    [kind |-> "xmlns", prefix |-> prefix, local |-> "", uri |-> uri, text |-> <<>>]

Attr(prefix, local, text) ==
    [kind |-> "attr", prefix |-> prefix, local |-> local, uri |-> "", text |-> text]

NoFile == [exists |-> FALSE, closed |-> FALSE, toks |-> <<>>]

XmlFile(toks) == [exists |-> TRUE, closed |-> TRUE, toks |-> toks]

EmptyRoot == [attrs |-> [q \in {} |-> <<>>], nsmap |-> [u \in {} |-> ""]]

\* The writer's escaping of an attribute value, one character.
XmlEscapeChar(c) ==
    CASE c = "&" -> <<"&", "a", "m", "p", ";">>
      [] c = "<" -> <<"&", "l", "t", ";">>
      [] c = ">" -> <<"&", "g", "t", ";">>
      [] c = "\"" -> <<"&", "q", "u", "o", "t", ";">>
      [] c = "'" -> <<"&", "a", "p", "o", "s", ";">>
      [] OTHER -> <<c>>

XmlEscape(v) == Concat([i \in 1..Len(v) |-> XmlEscapeChar(v[i])])

RECURSIVE XmlUnescape(_)
\* The reader's value of an attribute's raw text: [ok |-> TRUE, str |-> value],
\* or [ok |-> FALSE] on "<", on a "&" that starts no known entity.
XmlUnescape(t) ==
    IF t = <<>> THEN [ok |-> TRUE, str |-> <<>>]
    ELSE IF Head(t) = "<" THEN [ok |-> FALSE, str |-> <<>>]
    ELSE IF Head(t) # "&"
    THEN LET r == XmlUnescape(Tail(t))
         IN  [ok |-> r.ok, str |-> IF r.ok THEN <<Head(t)>> \o r.str ELSE <<>>]
    ELSE LET semis == {i \in 1..Len(t) : t[i] = ";"}
         IN  IF semis = {} THEN [ok |-> FALSE, str |-> <<>>]
             ELSE LET e    == Nth(semis, 1)
                      name == SubSeq(t, 2, e - 1)
                      c    == CASE name = <<"a", "m", "p">> -> "&"
                                [] name = <<"l", "t">> -> "<"
                                [] name = <<"g", "t">> -> ">"
                                [] name = <<"q", "u", "o", "t">> -> "\""
                                [] name = <<"a", "p", "o", "s">> -> "'"
                                [] OTHER -> ""
                      r    == XmlUnescape(SubSeq(t, e + 1, Len(t)))
                  IN  IF c = "" \/ ~r.ok THEN [ok |-> FALSE, str |-> <<>>]
                      ELSE [ok |-> TRUE, str |-> <<c>> \o r.str]

\* line 25: Element::from_reader(f) on a file: [ok |-> TRUE, root |-> element]
\* with the attributes keyed by <<namespace, local name>> and the namespace
\* prefixes the document declares, or [ok |-> FALSE] when the document is
\* not closed, uses an undeclared prefix or holds a malformed value.
XmlParse(f) ==
    LET idx     == 1..Len(f.toks)
        decls   == {i \in idx : f.toks[i].kind = "xmlns"}
        attrs   == {i \in idx : f.toks[i].kind = "attr"}
        bound(p) == p = "" \/ \E i \in decls : f.toks[i].prefix = p
        nsOf(p) == IF p = "" THEN ""
                   ELSE f.toks[CHOOSE i \in decls : f.toks[i].prefix = p].uri
        key(i)  == <<nsOf(f.toks[i].prefix), f.toks[i].local>>
        bad     == \/ ~f.closed
                   \/ \E i \in attrs : ~bound(f.toks[i].prefix)
                   \/ \E i \in attrs : ~XmlUnescape(f.toks[i].text).ok
    IN  IF bad THEN [ok |-> FALSE, root |-> EmptyRoot]
        ELSE [ok |-> TRUE,
              root |-> [attrs |-> [q \in {key(i) : i \in attrs} |->
                                     XmlUnescape(f.toks[CHOOSE i \in attrs : key(i) = q].text).str],
                        nsmap |-> [u \in {f.toks[i].uri : i \in decls} |->
                                     f.toks[CHOOSE i \in decls : f.toks[i].uri = u].prefix]]]

RECURSIVE SeqOfSet(_)
SeqOfSet(S) ==
    IF S = {} THEN <<>>
    ELSE LET x == CHOOSE y \in S : TRUE IN <<x>> \o SeqOfSet(S \ {x})

\* line 70: root.to_writer(&mut f): the tokens it writes, the namespace
\* declarations first, every attribute under the prefix of its namespace and
\* with its value escaped.
XmlWrite(root) ==
    LET ds == {Xmlns(root.nsmap[u], u) : u \in DOMAIN root.nsmap}
        as == {Attr(IF q[1] = "" THEN "" ELSE root.nsmap[q[1]], q[2],
                    XmlEscape(root.attrs[q])) : q \in DOMAIN root.attrs}
    IN  SeqOfSet(ds) \o SeqOfSet(as)

\* ------------------------------------------------------------------ AndroidManifest

\* Element::get_attr(name).unwrap_or(default)
GetAttrOr(root, q, default) ==
    IF q \in DOMAIN root.attrs THEN root.attrs[q] ELSE default

\* lines 33-35
package(root) == GetAttrOr(root, <<"", "package">>, <<"u", "n", "k", "n", "o", "w", "n">>)

version_code_unqualified(root) == GetAttrOr(root, <<"", "versionCode">>, <<"0">>)

\* lines 58-60
version_code(root) == GetAttrOr(root, <<ANDROID_NS, "versionCode">>, <<"0">>)

\* lines 63-65
version_name(root) == GetAttrOr(root, <<ANDROID_NS, "versionName">>, <<"0", ".", "0">>)

Lower == <<"a", "b", "c", "d", "e", "k", "m", "n", "o", "p", "u", "w", "x", "y">>

Upper == <<"A", "B", "C", "D", "E", "K", "M", "N", "O", "P", "U", "W", "X", "Y">>

\* char::to_uppercase: a string, since one character may become several
\* ("sz" stands for the one character U+00DF, whose upper case is "SS").
to_uppercase(c) ==
    IF \E i \in 1..Len(Lower) : Lower[i] = c
    THEN <<Upper[CHOOSE i \in 1..Len(Lower) : Lower[i] = c]>>
    ELSE IF c = "sz" THEN <<"S", "S">>
    ELSE <<c>>

\* char::to_lowercase
to_lowercase(c) ==
    IF \E i \in 1..Len(Upper) : Upper[i] = c
    THEN <<Lower[CHOOSE i \in 1..Len(Upper) : Upper[i] = c]>>
    ELSE <<c>>

\* split(".").next(): the text before the first ".".
SplitNext(s, i) ==
    LET dots == {j \in 1..Len(s) : s[j] = "."}
    IN  IF dots = {} THEN s ELSE SubSeq(s, 1, Nth(dots, 1) - 1)

RECURSIVE RSplitNext(_, _)
\* lines 42-44: rsplit(".").next().unwrap(), scanning from the end of s: the
\* text behind the last "." before position i, all of it when there is none.
RSplitNext(s, i) ==
    IF i = 0 THEN s
    ELSE IF s[i] = "." THEN SubSeq(s, i + 1, Len(s))
    ELSE RSplitNext(s, i - 1)

\* lines 45-54: .chars().enumerate().map(..).collect()
TitleCase(seg) ==
    Concat([idx \in 1..Len(seg) |->
              IF idx = 1 THEN to_uppercase(seg[idx]) ELSE to_lowercase(seg[idx])])

\* lines 38-55
name(root) ==
    LET p == GetAttrOr(root, <<"", "package">>, <<"u", "n", "k", "n", "o", "w", "n">>)
    IN  TitleCase(RSplitNext(p, Len(p)))

\* ------------------------------------------------------------------ state

VARIABLES
    dirs,        \* how many of the Depth ancestors of the properties path exist
    file,        \* the properties file: [exists |-> BOOLEAN, data |-> text]
    pc,          \* the merge's position: idle, open, read, insert, mkdir, create, write
    uuids,       \* the identifier list of the running call
    props,       \* the in-memory mapping (let mut props)
    pending,     \* write: keys of props not written yet
    wq,          \* write: the writes still to issue for the entry being written
    result,      \* what the last call returned: none, Ok, IoError, PersistError, crashed
    budget,      \* calls that may still be started
    file0,       \* history: the file when the call started
    dirs0,       \* history: dirs when the call started
    openKind,    \* history: how File::open ended: none, Ok, or the kind of its error
    readOutcome, \* history: how the mapping was obtained: none, ok, parse_err, io_err, notfound
    faults,      \* history: the steps of the call the environment made fail
    failedAt,    \* history: the step whose error the call returned
    crashPc,     \* history: where a call was killed ("none" if none was; "return"
                 \* when every write had been issued)
    crashFile    \* history: the file that call left behind

mergeVars == <<dirs, file, pc, uuids, props, pending, wq, result, budget,
               file0, dirs0, openKind, readOutcome, faults, failedAt,
               crashPc, crashFile>>

VARIABLES
    mfile,       \* the manifest files: [ManifestPaths -> file]
    man,         \* the AndroidManifest in hand: [loaded, path, root]
    mpc,         \* save's position: idle, saving
    mq,          \* save: the tokens still to write
    mop,         \* the last manifest operation that ended
    mres,        \* its result: none, Ok, Err
    mret,        \* the text an accessor returned
    loads,       \* calls of from_path that may still be made
    origin,      \* history: the path handed to the last successful from_path
    loadedFrom,  \* history: the file that call read
    filesAtLoad, \* history: all manifest files at that time
    rootAtLoad,  \* history: the tree that call built
    savedOk,     \* history: a save of the manifest in hand has completed
    reloaded,    \* history: the manifest in hand was loaded from the path its
                 \* predecessor was loaded from and saved to
    prevTriple,  \* history: the predecessor's package, version code and name
    mcrashPath   \* history: the path a killed save was writing ("" if none)

manVars == <<mfile, man, mpc, mq, mop, mres, mret, loads, origin, loadedFrom,
             filesAtLoad, rootAtLoad, savedOk, reloaded, prevTriple, mcrashPath>>

vars == <<mergeVars, manVars>>

Absent == [exists |-> FALSE, data |-> <<>>]

FileOf(data) == [exists |-> TRUE, data |-> data]

\* ------------------------------------------------------------------ inputs

\* Lines a properties file may hold before the merge: a pair, the owned key
\* with an old value, a malformed \u escape, a comment, a pair separated by
\* whitespace, and a second value for the key "a" with an escaped space.
LineSamples ==
    { <<"a", "=", "b">>,
      ProguardKey \o <<"=", "o", "l", "d">>,
      <<BS, "u", "1", "2">>,
      <<"#", "c">>,
      <<"c", SP, "d">>,
      <<"a", ":", BS, SP, "e">> }

FileOfLines(ls) == Concat([i \in 1..Len(ls) |-> ls[i] \o <<NL>>])

PriorFiles == {FileOfLines(ls) : ls \in UNION {[1..n -> LineSamples] : n \in 0..MaxLines}}

UuidLists == UNION {[1..n -> UuidPool] : n \in 0..MaxUuids}

\* ------------------------------------------------------------------ merge

OpenErrorAlwaysReturned(kind) == TRUE

OpenErrorNeverReturned(kind) == FALSE

\* line 93: an open error is returned unless its kind is NotFound.
OpenErrorReturned(kind) == kind # "NotFound"

AlwaysEmpty(res) == EmptyMap

\* line 90: unwrap_or_else(|_| HashMap::new()) on the result of the read.
UnwrapOrEmpty(res) == IF res.ok THEN res.map ELSE EmptyMap

InsertIfAbsent(m, k, v) == IF k \in DOMAIN m THEN m ELSE (k :> v) @@ m

\* lines 101-103: props.insert(key, value) replaces the value of the key.
Insert(m, k, v) == (k :> v) @@ m

\* The kinds File::open can end with on the current file system.
OpenKinds == IF file.exists THEN {"Ok", "PermissionDenied", "Other"}
             ELSE {"NotFound", "PermissionDenied", "Other"}

ReturnWith(res, step) ==
    /\ result' = res
    /\ failedAt' = step
    /\ pc' = "idle"
    /\ props' = EmptyMap
    /\ pending' = {}
    /\ wq' = <<>>

\* A call of dump_proguard_uuids_as_properties(p, uuids).
Call ==
    /\ UNCHANGED manVars
    /\ pc = "idle"
    /\ budget > 0
    /\ \E us \in UuidLists : uuids' = us
    /\ budget' = budget - 1
    /\ pc' = "open"
    /\ result' = "none"
    /\ file0' = file
    /\ dirs0' = dirs
    /\ openKind' = "none"
    /\ readOutcome' = "none"
    /\ faults' = {}
    /\ failedAt' = "none"
    /\ UNCHANGED <<dirs, file, props, pending, wq, crashPc, crashFile>>

\* lines 88-89, 92-98: match fs::File::open(p).
Open ==
    /\ UNCHANGED manVars
    /\ pc = "open"
    /\ \E kind \in OpenKinds :
        /\ openKind' = kind
        /\ IF kind = "Ok"
           THEN /\ pc' = "read"
                /\ UNCHANGED <<props, readOutcome, faults, result, failedAt,
                               pending, wq>>
           ELSE IF OpenErrorReturned(kind)
           THEN /\ faults' = faults \cup {"open"}
                /\ ReturnWith("IoError", "open")
                /\ UNCHANGED readOutcome
           ELSE /\ props' = EmptyMap
                /\ readOutcome' = "notfound"
                /\ pc' = "insert"
                /\ UNCHANGED <<faults, result, failedAt, pending, wq>>
    /\ UNCHANGED <<dirs, file, uuids, budget, file0, dirs0, crashPc, crashFile>>

\* line 90: java_properties::read(f), which fails on a read error of the
\* file as well as on text that does not parse.
Read ==
    /\ UNCHANGED manVars
    /\ pc = "read"
    /\ \E io \in {"ok", "error"} :
        LET res == IF io = "error" THEN [ok |-> FALSE, map |-> EmptyMap]
                   ELSE PropsRead(file.data)
        IN  /\ props' = UnwrapOrEmpty(res)
            /\ readOutcome' = IF io = "error" THEN "io_err"
                              ELSE IF res.ok THEN "ok" ELSE "parse_err"
            /\ faults' = IF io = "error" THEN faults \cup {"read"} ELSE faults
    /\ pc' = "insert"
    /\ UNCHANGED <<dirs, file, uuids, pending, wq, result, budget, file0, dirs0,
                   openKind, failedAt, crashPc, crashFile>>

\* lines 101-103.
InsertUuids ==
    /\ UNCHANGED manVars
    /\ pc = "insert"
    /\ props' = Insert(props, ProguardKey, JoinedUuids(uuids))
    /\ pc' = "mkdir"
    /\ UNCHANGED <<dirs, file, uuids, pending, wq, result, budget, file0, dirs0,
                   openKind, readOutcome, faults, failedAt, crashPc, crashFile>>

MkdirSkipped ==
    /\ UNCHANGED manVars
    /\ pc = "mkdir"
    /\ pc' = "create"
    /\ UNCHANGED <<dirs, file, uuids, props, pending, wq, result, budget, file0,
                   dirs0, openKind, readOutcome, faults, failedAt, crashPc,
                   crashFile>>

\* lines 105-107: fs::create_dir_all(parent)?, which makes the missing
\* ancestors from the outermost inwards and may fail at any of them.
Mkdir ==
    /\ UNCHANGED manVars
    /\ pc = "mkdir"
    /\ \/ /\ dirs' = Depth
          /\ pc' = "create"
          /\ UNCHANGED <<props, pending, wq, result, faults, failedAt>>
       \/ /\ \E k \in dirs..Depth :
                /\ k < Depth \/ dirs = Depth
                /\ dirs' = k
          /\ faults' = faults \cup {"mkdir"}
          /\ ReturnWith("IoError", "mkdir")
    /\ UNCHANGED <<file, uuids, budget, file0, dirs0, openKind, readOutcome,
                   crashPc, crashFile>>

CreateWithoutTruncate ==
    /\ UNCHANGED manVars
    /\ pc = "create"
    /\ dirs = Depth
    /\ file' = FileOf(file.data)
    /\ pending' = DOMAIN props
    /\ pc' = "write"
    /\ UNCHANGED <<dirs, uuids, props, wq, result, budget, file0, dirs0, openKind,
                   readOutcome, faults, failedAt, crashPc, crashFile>>

\* line 108: fs::File::create(p)?, which makes the file or truncates it and
\* fails when the parent directory is missing.
Create ==
    /\ UNCHANGED manVars
    /\ pc = "create"
    /\ \/ /\ dirs = Depth
          /\ file' = FileOf(<<>>)
          /\ pending' = DOMAIN props
          /\ pc' = "write"
          /\ UNCHANGED <<props, wq, result, faults, failedAt>>
       \/ /\ faults' = IF dirs = Depth THEN faults \cup {"create"} ELSE faults
          /\ ReturnWith("IoError", "create")
          /\ UNCHANGED file
    /\ UNCHANGED <<dirs, uuids, budget, file0, dirs0, openKind, readOutcome,
                   crashPc, crashFile>>

\* line 109: java_properties::write starts the next entry of the map, in the
\* map's iteration order (any order), and issues the first of its writes.
WriteEntry ==
    /\ UNCHANGED manVars
    /\ pc = "write"
    /\ wq = <<>>
    /\ \E k \in pending :
        LET chunks == EntryChunks(k, props[k])
        IN  /\ file' = FileOf(file.data \o Head(chunks))
            /\ wq' = Tail(chunks)
            /\ pending' = pending \ {k}
    /\ UNCHANGED <<dirs, pc, uuids, props, result, budget, file0, dirs0, openKind,
                   readOutcome, faults, failedAt, crashPc, crashFile>>

\* line 109: the next write of the entry being written.
WriteChunk ==
    /\ UNCHANGED manVars
    /\ pc = "write"
    /\ wq # <<>>
    /\ file' = FileOf(file.data \o Head(wq))
    /\ wq' = Tail(wq)
    /\ UNCHANGED <<dirs, pc, uuids, props, pending, result, budget, file0, dirs0,
                   openKind, readOutcome, faults, failedAt, crashPc, crashFile>>

\* lines 109-110: a write fails; the error is mapped to the persist error.
WriteFail ==
    /\ UNCHANGED manVars
    /\ pc = "write"
    /\ pending # {} \/ wq # <<>>
    /\ faults' = faults \cup {"write"}
    /\ ReturnWith("PersistError", "write")
    /\ UNCHANGED <<dirs, file, uuids, budget, file0, dirs0, openKind, readOutcome,
                   crashPc, crashFile>>

\* line 111: Ok(()).
ReturnOk ==
    /\ UNCHANGED manVars
    /\ pc = "write"
    /\ pending = {}
    /\ wq = <<>>
    /\ ReturnWith("Ok", "none")
    /\ UNCHANGED <<dirs, file, uuids, budget, file0, dirs0, openKind, readOutcome,
                   faults, crashPc, crashFile>>

\* The process is killed in the middle of a call: what reached the file
\* system stays, everything in memory is gone.
Crash ==
    /\ UNCHANGED manVars
    /\ pc # "idle"
    /\ crashPc' = IF pc = "write" /\ pending = {} /\ wq = <<>> THEN "return" ELSE pc
    /\ crashFile' = file
    /\ ReturnWith("crashed", "none")
    /\ UNCHANGED <<dirs, file, uuids, budget, file0, dirs0, openKind, readOutcome,
                   faults>>

\* ------------------------------------------------------------------ manifest operations

ManifestPaths == {"m1", "m2"}

NoManifest == [loaded |-> FALSE, path |-> "", root |-> EmptyRoot]

Triple(root) == <<package(root), version_code(root), version_name(root)>>

StoredFixedPath(path) == "m1"

\* line 27: path: path.as_ref().to_path_buf()
StoredPath(path) == path

MEnd(op, res, ret) ==
    /\ mop' = op
    /\ mres' = res
    /\ mret' = ret

\* lines 23-30: AndroidManifest::from_path(path).
FromPath ==
    /\ mpc = "idle"
    /\ loads > 0
    /\ loads' = loads - 1
    /\ \E path \in ManifestPaths, io \in {"ok", "denied"} :
        LET f == mfile[path]
            r == XmlParse(f)
        IN  IF f.exists /\ io = "ok" /\ r.ok
            THEN /\ man' = [loaded |-> TRUE, path |-> StoredPath(path), root |-> r.root]
                 /\ MEnd("from_path", "Ok", <<>>)
                 /\ origin' = path
                 /\ loadedFrom' = f
                 /\ filesAtLoad' = mfile
                 /\ rootAtLoad' = r.root
                 /\ reloaded' = (man.loaded /\ savedOk /\ origin = path)
                 /\ prevTriple' = Triple(man.root)
                 /\ savedOk' = FALSE
            ELSE /\ MEnd("from_path", "Err", <<>>)
                 /\ UNCHANGED <<man, origin, loadedFrom, filesAtLoad, rootAtLoad,
                                reloaded, prevTriple, savedOk>>
    /\ UNCHANGED <<mfile, mpc, mq, mcrashPath>>
    /\ UNCHANGED mergeVars

Accessor(op, ret) ==
    /\ mpc = "idle"
    /\ man.loaded
    /\ MEnd(op, "Ok", ret)
    /\ UNCHANGED <<mfile, man, mpc, mq, loads, origin, loadedFrom, filesAtLoad,
                   rootAtLoad, savedOk, reloaded, prevTriple, mcrashPath>>
    /\ UNCHANGED mergeVars

\* lines 33-35
Package == Accessor("package", package(man.root))

\* lines 38-55
Name == Accessor("name", name(man.root))

\* lines 58-60
VersionCode == Accessor("version_code", version_code(man.root))

\* lines 63-65
VersionName == Accessor("version_name", version_name(man.root))

\* line 69: fs::File::create(&self.path)?, which truncates the file.
SaveCreate ==
    /\ mpc = "idle"
    /\ man.loaded
    /\ \/ /\ mfile' = [mfile EXCEPT ![man.path] =
                          [exists |-> TRUE, closed |-> FALSE, toks |-> <<>>]]
          /\ mq' = XmlWrite(man.root)
          /\ mpc' = "saving"
          /\ savedOk' = FALSE
          /\ MEnd("save", "none", <<>>)
       \/ /\ MEnd("save", "Err", <<>>)
          /\ UNCHANGED <<mfile, mq, mpc, savedOk>>
    /\ UNCHANGED <<man, loads, origin, loadedFrom, filesAtLoad, rootAtLoad,
                   reloaded, prevTriple, mcrashPath>>
    /\ UNCHANGED mergeVars

\* line 70: to_writer writes the next token of the root's start tag.
SaveWrite ==
    /\ mpc = "saving"
    /\ mq # <<>>
    /\ mfile' = [mfile EXCEPT ![man.path].toks = Append(@, Head(mq))]
    /\ mq' = Tail(mq)
    /\ UNCHANGED <<man, mpc, mop, mres, mret, loads, origin, loadedFrom,
                   filesAtLoad, rootAtLoad, savedOk, reloaded, prevTriple,
                   mcrashPath>>
    /\ UNCHANGED mergeVars

\* lines 70-71: to_writer writes the rest of the document and save returns Ok.
SaveEnd ==
    /\ mpc = "saving"
    /\ mq = <<>>
    /\ mfile' = [mfile EXCEPT ![man.path].closed = TRUE]
    /\ mpc' = "idle"
    /\ savedOk' = TRUE
    /\ MEnd("save", "Ok", <<>>)
    /\ UNCHANGED <<man, mq, loads, origin, loadedFrom, filesAtLoad, rootAtLoad,
                   reloaded, prevTriple, mcrashPath>>
    /\ UNCHANGED mergeVars

\* line 70: a write fails and to_writer's error is returned.
SaveWriteFail ==
    /\ mpc = "saving"
    /\ mpc' = "idle"
    /\ mq' = <<>>
    /\ MEnd("save", "Err", <<>>)
    /\ UNCHANGED <<mfile, man, loads, origin, loadedFrom, filesAtLoad, rootAtLoad,
                   savedOk, reloaded, prevTriple, mcrashPath>>
    /\ UNCHANGED mergeVars

\* The process is killed in the middle of save.
SaveCrash ==
    /\ mpc = "saving"
    /\ mpc' = "idle"
    /\ mq' = <<>>
    /\ man' = NoManifest
    /\ mcrashPath' = man.path
    /\ savedOk' = FALSE
    /\ reloaded' = FALSE
    /\ MEnd("crashed", "none", <<>>)
    /\ UNCHANGED <<mfile, loads, origin, loadedFrom, filesAtLoad, rootAtLoad,
                   prevTriple>>
    /\ UNCHANGED mergeVars

\* ------------------------------------------------------------------ manifest inputs

PkgAlphabet == {"a", "B", "."}

\* Raw package texts: every text over the alphabet up to MaxPkgLen, and
\* "com.ex.myApp", "wIdget", U+00DF followed by "X." and "x", and "a&amp;B".
PackageTexts ==
    UNION {[1..n -> PkgAlphabet] : n \in 0..MaxPkgLen}
    \cup { <<"c", "o", "m", ".", "e", "x", ".", "m", "y", "A", "p", "p">>,
           <<"w", "E", "d", "d">>,
           <<"B", ".", "sz", "X", ".", "x">>,
           <<"a", ".", "sz", "X">>,
           <<"a", "&", "a", "m", "p", ";", "B">> }

BaseDecls(prefix) == <<Xmlns(prefix, ANDROID_NS), Xmlns("tools", TOOLS_NS)>>

\* The ways a version attribute occurs: not at all, in the Android
\* namespace, without a namespace, in another namespace, in both namespaces.
Variants == {"absent", "android", "plain", "tools", "both"}

VersionToks(variant, prefix, local, text, other) ==
    CASE variant = "absent"  -> <<>>
      [] variant = "android" -> <<Attr(prefix, local, text)>>
      [] variant = "plain"   -> <<Attr("", local, other)>>
      [] variant = "tools"   -> <<Attr("tools", local, other)>>
      [] variant = "both"    -> <<Attr("tools", local, other), Attr(prefix, local, text)>>

CodeToks(variant, prefix) ==
    VersionToks(variant, prefix, "versionCode", <<"1", "2">>, <<"7">>)

\* The version name "1<2&" and another one, "9'".
NameToks(variant, prefix) ==
    VersionToks(variant, prefix, "versionName",
                <<"1", "&", "l", "t", ";", "2", "&", "a", "m", "p", ";">>,
                <<"9", "&", "a", "p", "o", "s", ";">>)

PresenceDocs ==
    {XmlFile(BaseDecls("android") \o p \o CodeToks(vc, "android") \o NameToks(vn, "android")) :
        p \in {<<>>, <<Attr("", "package", <<"a", ".", "B">>)>>},
        vc \in Variants, vn \in Variants}

PackageDocs ==
    {XmlFile(BaseDecls("a") \o <<Attr("", "package", t)>> \o CodeToks("android", "a")) :
        t \in PackageTexts}

\* A document cut short, one with an undeclared prefix, one with a bare "&".
BadDocs ==
    { [exists |-> TRUE, closed |-> FALSE, toks |-> BaseDecls("android")],
      XmlFile(<<Attr("android", "versionCode", <<"1">>)>>),
      XmlFile(BaseDecls("android") \o <<Attr("", "package", <<"a", "&", "b">>)>>) }

OtherDoc == XmlFile(BaseDecls("android") \o <<Attr("", "package", <<"o", ".", "k">>)>>)

\* ------------------------------------------------------------------ specifications

InitCommon ==
    /\ pc = "idle"
    /\ uuids = <<>>
    /\ props = EmptyMap
    /\ pending = {}
    /\ wq = <<>>
    /\ result = "none"
    /\ file0 = file
    /\ dirs0 = dirs
    /\ openKind = "none"
    /\ readOutcome = "none"
    /\ faults = {}
    /\ failedAt = "none"
    /\ crashPc = "none"
    /\ crashFile = Absent

InitManCommon ==
    /\ man = NoManifest
    /\ mpc = "idle"
    /\ mq = <<>>
    /\ mop = "none"
    /\ mres = "none"
    /\ mret = <<>>
    /\ origin = ""
    /\ loadedFrom = NoFile
    /\ filesAtLoad = mfile
    /\ rootAtLoad = EmptyRoot
    /\ savedOk = FALSE
    /\ reloaded = FALSE
    /\ prevTriple = Triple(EmptyRoot)
    /\ mcrashPath = ""

\* No merge is run.
MergeOff ==
    /\ dirs = 0
    /\ file = Absent
    /\ budget = 0
    /\ InitCommon

\* No manifest is loaded.
ManifestOff ==
    /\ mfile = [q \in ManifestPaths |-> NoFile]
    /\ loads = 0
    /\ InitManCommon

\* One merge into any prior file system.
Init ==
    /\ dirs \in 0..Depth
    /\ file \in {Absent} \cup (IF dirs = Depth THEN {FileOf(d) : d \in PriorFiles} ELSE {})
    /\ budget = 1
    /\ InitCommon
    /\ ManifestOff

Next ==
    \/ Call
    \/ Open
    \/ Read
    \/ InsertUuids
    \/ Mkdir
    \/ Create
    \/ WriteEntry
    \/ WriteChunk
    \/ WriteFail
    \/ ReturnOk
    \/ Crash

Spec == Init /\ [][Next]_vars

\* Loads, accessor calls and saves of manifests.
InitManifest ==
    /\ MergeOff
    /\ \E d \in PresenceDocs \cup PackageDocs \cup BadDocs \cup {NoFile},
          o \in {OtherDoc, NoFile} :
            mfile = [q \in ManifestPaths |-> IF q = "m1" THEN d ELSE o]
    /\ loads = MaxLoads
    /\ InitManCommon

NextManifest ==
    \/ FromPath
    \/ Package
    \/ Name
    \/ VersionCode
    \/ VersionName
    \/ SaveCreate
    \/ SaveWrite
    \/ SaveEnd
    \/ SaveWriteFail
    \/ SaveCrash

SpecManifest == InitManifest /\ [][NextManifest]_vars

\* A merge, a kill in the middle of it, and the merge run again; or a save
\* of a manifest, a kill in the middle of it, and a load.
CrashLines == { <<"a", "=", "b">>, ProguardKey \o <<"=", "o", "l", "d">> }

InitCrash ==
    \/ /\ dirs = Depth
       /\ file \in {FileOf(FileOfLines(ls)) :
                       ls \in UNION {[1..n -> CrashLines] : n \in 1..MaxLines}}
       /\ budget = 2
       /\ InitCommon
       /\ ManifestOff
    \/ /\ MergeOff
       /\ \E d \in PresenceDocs :
            mfile = [q \in ManifestPaths |-> IF q = "m1" THEN d ELSE OtherDoc]
       /\ loads = MaxLoads
       /\ InitManCommon

NextCrash ==
    \/ Next
    \/ NextManifest

SpecCrash == InitCrash /\ [][NextCrash]_vars

\* ------------------------------------------------------------------ properties of the merge

\* What a reader of the properties file at the path finds now, and what one
\* found when the call started.
Stored == PropsRead(file.data)

Prior == PropsRead(file0.data)

Returned == pc = "idle" /\ result \notin {"none", "crashed"}

ReturnedOk == pc = "idle" /\ result = "Ok"

\* The text cut at every "|".
SplitBar(s) ==
    LET bars == {i \in 1..Len(s) : s[i] = "|"}
        cnt  == Cardinality(bars)
    IN  [k \in 1..(cnt + 1) |->
            SubSeq(s, IF k = 1 THEN 1 ELSE Nth(bars, k - 1) + 1,
                      IF k = cnt + 1 THEN Len(s) ELSE Nth(bars, k) - 1)]

\* The value of the owned key in the file is the string forms of the call's
\* identifiers, in their order, with "|" between them.
HoldsUuids(m) ==
    /\ ProguardKey \in DOMAIN m
    /\ IF uuids = <<>> THEN m[ProguardKey] = <<>>
       ELSE SplitBar(m[ProguardKey]) = [i \in 1..Len(uuids) |-> UuidToString(uuids[i])]

\* C1: after a successful merge the file at the path is a properties mapping
\* whose key io.sentry.ProguardUuids holds exactly the string forms of the
\* identifiers joined with "|" in the given order, whatever the file was
\* before (absent, parseable with or without the key, unparseable); a prior
\* value is replaced, and an empty list gives the empty string.
C1_ValueIsJoinedUuids ==
    ReturnedOk => file.exists /\ Stored.ok /\ HoldsUuids(Stored.map)

C1_Witness ==
    /\ ReturnedOk
    /\ Len(uuids) = 2
    /\ uuids[1] # uuids[2]
    /\ Prior.ok
    /\ ProguardKey \in DOMAIN Prior.map
    /\ Prior.map[ProguardKey] = <<"o", "l", "d">>

\* C2: when the existing file was read and parsed, a successful merge keeps
\* every other key with its value and adds no key but io.sentry.ProguardUuids.
C2_OtherKeysKept ==
    (ReturnedOk /\ readOutcome = "ok") =>
        /\ Stored.ok
        /\ DOMAIN Stored.map = DOMAIN Prior.map \cup {ProguardKey}
        /\ \A k \in DOMAIN Prior.map \ {ProguardKey} : Stored.map[k] = Prior.map[k]

C2_Witness ==
    /\ ReturnedOk
    /\ readOutcome = "ok"
    /\ DOMAIN Prior.map = {<<"a">>, <<"c">>}
    /\ Prior.map[<<"a">>] = <<SP, "e">>

\* C3: a missing file and a file that does not parse are no error of the
\* merge: it goes on with an empty mapping, and the file it then writes
\* holds the key io.sentry.ProguardUuids and nothing of the prior content.
C3_MissingOrMalformedIsEmpty ==
    /\ openKind = "NotFound" => failedAt # "open"
    /\ readOutcome \in {"notfound", "parse_err"} =>
          /\ failedAt \in {"none", "mkdir", "create", "write"}
          /\ pc = "insert" => (props = EmptyMap /\ result = "none")
          /\ ReturnedOk =>
                (Stored.ok /\ DOMAIN Stored.map = {ProguardKey} /\ HoldsUuids(Stored.map))

C3_Witness ==
    /\ ReturnedOk
    /\ readOutcome = "parse_err"
    /\ file0.exists
    /\ uuids # <<>>

\* C4: when the open fails with a kind other than NotFound, the merge returns
\* the I/O error at once: no directory is made and the file is not touched.
C4_OpenErrorPropagates ==
    openKind \notin {"none", "Ok", "NotFound"} =>
        /\ pc = "idle"
        /\ result = "IoError"
        /\ failedAt = "open"
        /\ file = file0
        /\ dirs = dirs0

C4_Witness ==
    /\ openKind = "PermissionDenied"
    /\ result = "IoError"
    /\ dirs0 = Depth
    /\ file0.exists
    /\ file0.data # <<>>

\* C5: every failure of a step is returned as an error, the missing file and
\* the malformed file excepted: a call that returned Ok met no failing step.
C5_NoFailureBecomesSuccess ==
    ReturnedOk => faults = {}

\* C9: the ancestors of the path are made before the file is, so a merge
\* into missing directories in which no step fails succeeds, reading the
\* missing file as empty, and leaves the directories and the file; when the
\* directories cannot be made the error is returned and the file untouched.
C9_DirectoriesBeforeFile ==
    /\ (pc = "write" \/ file # file0) => dirs = Depth
    /\ (Returned /\ dirs0 < Depth /\ faults = {}) =>
          (result = "Ok" /\ dirs = Depth /\ file.exists /\ readOutcome = "notfound")
    /\ failedAt = "mkdir" => (result = "IoError" /\ pc = "idle" /\ file = file0)

C9_Witness ==
    /\ ReturnedOk
    /\ dirs0 = 0
    /\ dirs = Depth
    /\ file.exists

\* C10 as claimed: after a kill between the truncation and the last write, a
\* later successful merge leaves a file with no key but io.sentry.ProguardUuids.
C10_LaterMergeHoldsOnlyTheKey ==
    (ReturnedOk /\ crashPc = "write") => DOMAIN Stored.map = {ProguardKey}

\* C10, amended: the file is truncated first and written in place after, so
\* a kill in between leaves it empty or with the writes issued so far; a
\* later successful merge leaves io.sentry.ProguardUuids and the keys the
\* truncated file was read to hold, which is no key when it was left empty.
\* A manifest whose save was killed no longer loads.
C10_LaterMergeKeepsWhatWasWritten ==
    /\ (pc = "write" /\ pending = DOMAIN props /\ wq = <<>>) =>
          (file.exists /\ file.data = <<>>)
    /\ (result = "crashed" /\ crashPc = "write") => (file.exists /\ file = crashFile)
    /\ (ReturnedOk /\ crashPc = "write") =>
          /\ Stored.ok
          /\ readOutcome = "ok" =>
                DOMAIN Stored.map = DOMAIN PropsRead(crashFile.data).map \cup {ProguardKey}
          /\ (readOutcome # "ok" \/ crashFile.data = <<>>) =>
                DOMAIN Stored.map = {ProguardKey}
    /\ (mpc = "saving" /\ mq = XmlWrite(man.root)) =>
          mfile[man.path] = [exists |-> TRUE, closed |-> FALSE, toks |-> <<>>]
    /\ mcrashPath # "" => ~XmlParse(mfile[mcrashPath]).ok

C10_Witness ==
    /\ result = "crashed"
    /\ crashPc = "write"
    /\ <<"a">> \in DOMAIN Prior.map
    /\ file.exists
    /\ file.data = <<>>

\* ------------------------------------------------------------------ properties of the manifest

Unknown == <<"u", "n", "k", "n", "o", "w", "n">>

\* The value of the attribute local in the namespace uri ("" for none) as it
\* stands in the root's start tag of the file f, default when it is not there.
ExpectedAttr(f, uri, local, default) ==
    LET hits == {i \in 1..Len(f.toks) :
                    /\ f.toks[i].kind = "attr"
                    /\ f.toks[i].local = local
                    /\ IF uri = "" THEN f.toks[i].prefix = ""
                       ELSE \E j \in 1..Len(f.toks) :
                               /\ f.toks[j].kind = "xmlns"
                               /\ f.toks[j].prefix = f.toks[i].prefix
                               /\ f.toks[j].uri = uri}
    IN  IF hits = {} THEN default
        ELSE XmlUnescape(f.toks[CHOOSE i \in hits : TRUE].text).str

\* C6: each accessor returns the value of its attribute when the root
\* element has it and its default otherwise, whatever the other attributes
\* are: package() the unqualified package or "unknown", version_code() the
\* versionCode of the Android namespace or "0", version_name() the
\* versionName of the Android namespace or "0.0"; no accessor fails and the
\* tree stays as it was loaded.
C6_AccessorsReadOrDefault ==
    /\ mop = "package" =>
          (mres = "Ok" /\ mret = ExpectedAttr(loadedFrom, "", "package", Unknown))
    /\ mop = "version_code" =>
          (mres = "Ok" /\ mret = ExpectedAttr(loadedFrom, ANDROID_NS, "versionCode", <<"0">>))
    /\ mop = "version_name" =>
          (mres = "Ok" /\ mret = ExpectedAttr(loadedFrom, ANDROID_NS, "versionName", <<"0", ".", "0">>))
    /\ man.loaded => man.root = rootAtLoad

C6_Witness ==
    /\ mop = "version_code"
    /\ mret = <<"0">>
    /\ <<"", "versionCode">> \in DOMAIN man.root.attrs
    /\ <<"", "package">> \in DOMAIN man.root.attrs
    /\ <<ANDROID_NS, "versionName">> \in DOMAIN man.root.attrs

\* C7: name() is the text of the package (of "unknown" without one) behind
\* its last ".", all of it when it has none, with the first character in
\* upper case and every later one in lower case; it never fails, and it is
\* empty when the package is empty or ends in ".".
C7_NameIsTitleCasedLastSegment ==
    mop = "name" =>
        LET p    == ExpectedAttr(loadedFrom, "", "package", Unknown)
            dots == {i \in 1..Len(p) : p[i] = "."}
            last == IF dots = {} THEN 0 ELSE Nth(dots, Cardinality(dots))
            seg  == SubSeq(p, last + 1, Len(p))
        IN  /\ mres = "Ok"
            /\ mret = IF seg = <<>> THEN <<>>
                      ELSE to_uppercase(seg[1])
                           \o Concat([i \in 1..(Len(seg) - 1) |-> to_lowercase(seg[i + 1])])
            /\ (p = <<>> \/ p[Len(p)] = ".") => mret = <<>>

C7_Witness ==
    /\ mop = "name"
    /\ package(man.root) = <<"c", "o", "m", ".", "e", "x", ".", "m", "y", "A", "p", "p">>
    /\ mret = <<"M", "y", "a", "p", "p">>

\* C8: a manifest loaded from a path, saved unchanged and loaded from that
\* path again has the package, version code and version name of the first
\* load; save writes the path the manifest was loaded from and no other.
C8_SaveThenReloadKeepsValues ==
    /\ reloaded => Triple(man.root) = prevTriple
    /\ man.loaded =>
          /\ man.path = origin
          /\ \A q \in ManifestPaths \ {origin} : mfile[q] = filesAtLoad[q]

C8_Witness ==
    /\ reloaded
    /\ origin = "m1"
    /\ prevTriple = << <<"a", ".", "B">>, <<"1", "2">>, <<"1", "<", "2", "&">> >>

====
